---------------------------- MODULE Spec2Model ----------------------------
(***************************************************************************)
(* Time Entry Engine of the backend API: the MonthlyTracking documents,    *)
(* the hours calculator (calculateEntryHours), the entry resolver          *)
(* (createOrUpdateEntry), the status read (getTodayRealTimeStatus) and the *)
(* controller handlers checkIn, checkOut, startPause, resumeWork and       *)
(* continueWork.                                                           *)
(*                                                                         *)
(* Instants are milliseconds since an epoch that is 00:00 UTC of the first *)
(* modelled day.  Hour fields (totalHours, breakHours, netHours,           *)
(* overtimeHours, totalHoursMonth) are kept as exact rationals scaled by   *)
(* MsPerHour, i.e. a stored value v stands for v / 3600000 hours; the      *)
(* source divides by (1000 * 60 * 60) on every assignment.                 *)
(***************************************************************************)
EXTENDS Integers, Sequences, FiniteSets, TLC

VARIABLES
    now,            \* the wall clock, new Date()
    serverTz,       \* zone offset of the server process, in hours
    monthStartDay,  \* Madagascar day on which the next calendar month begins
    store,          \* the TimeTracking collection: a set of documents
    last,           \* the handler that ran last and its outcome
    reqs,           \* number of requests handled so far
    cEntry,         \* hours calculator alone: the entry being recomputed
    cPrev,          \*   the entry as it was before the last run
    cOrig,          \*   the entry as it was before the first run
    cRet,           \*   the value returned by the last run
    cNow,           \*   the instant of the last run
    cPrevNow,       \*   the instant of the run before it
    cCount,         \*   the number of runs so far
    pc,             \* concurrent requests: where each one stands
    pending,        \*   the document each one has built and is about to save
    outcome         \*   the answer each one has sent

vars == <<now, serverTz, monthStartDay, store, last, reqs,
          cEntry, cPrev, cOrig, cRet, cNow, cPrevNow, cCount,
          pc, pending, outcome>>

mainVars == <<now, serverTz, monthStartDay, store, last, reqs>>
calcVars == <<cEntry, cPrev, cOrig, cRet, cNow, cPrevNow, cCount>>
concVars == <<pc, pending, outcome>>

---------------------------------------------------------------------------
(* Units and bounds *)

MsPerMinute == 1000 * 60
MsPerHour == 1000 * 60 * 60
MsPerDay == 24 * MsPerHour
EightHours == 8 * MsPerHour
FourHours == 4 * MsPerHour

\* the instants at which requests arrive, in hours since the epoch: 12:00,
\* 16:00 and 20:00 Madagascar time of day 0, then 00:00, 01:00, 03:00, 04:00
\* and 05:00 of day 1; the clock visits the first MaxTick of them
ClockHours == <<9, 13, 17, 21, 22, 24, 25, 26>>
MaxTick == 6
\* cap on the number of breaks one entry may accumulate
MaxBreaks == 2
\* cap on the number of requests handled in one run
MaxReqs == 5

None == -1
Users == {"u1"}
\* the requests that are in flight at the same time
Procs == {"p1", "p2"}
\* zone offsets of the server process (hours east of UTC)
ServerTzHours == {0, 3}

---------------------------------------------------------------------------
(* utils/dateUtils.ts *)

MADA_TIMEZONE_OFFSET == 3 * 60 * 60 * 1000

getMadaTime(date) == date + MADA_TIMEZONE_OFFSET

\* the calendar day taken from the instant itself, without the shift to UTC+3
getMadaDateString_Utc(date) == date \div MsPerDay

\* the calendar day, as the number of whole days since the epoch; this is the
\* information carried by the YYYY-MM-DD string
getMadaDateString(date) == getMadaTime(date) \div MsPerDay

getUTCHours(shifted) == (shifted % MsPerDay) \div MsPerHour

\* (month, year) of the Madagascar calendar, as one key.  The calendar is a
\* parameter of the run: the month changes at Madagascar day monthStartDay.
getMadaDateComponents(date) ==
    IF getMadaDateString(date) >= monthStartDay THEN 2 ELSE 1

\* Date.prototype.toDateString(): the calendar day in the zone of the server
toDateString(date) == (date + serverTz * MsPerHour) \div MsPerDay

\* new Date(d); setDate(getDate() - 1); setHours(23, 59, 59, 999)
LocalEndOfYesterday(d) ==
    toDateString(d) * MsPerDay - 1 - serverTz * MsPerHour

---------------------------------------------------------------------------
(* models/TimeTracking.ts: schemas *)

StatusValues == {"present", "absent", "late", "partial", "in_progress", "completed"}

\* breakSchema defaults
NewBreak(start) == [start |-> start, end |-> None, duration |-> 0]

\* timeEntrySchema defaults
EntryDefaults ==
    [date |-> None, checkIn |-> None, checkOut |-> None, breaks |-> <<>>,
     totalHours |-> 0, breakHours |-> 0, netHours |-> 0,
     status |-> "absent", isPaused |-> FALSE, lastResumeTime |-> None,
     overtimeStarted |-> FALSE, overtimeHours |-> 0]

\* Object.assign(target, data): the fields of data overwrite those of target
ObjectAssign(target, data) ==
    [f \in DOMAIN target |-> IF f \in DOMAIN data THEN data[f] ELSE target[f]]

Max(a, b) == IF a >= b THEN a ELSE b
Min(a, b) == IF a <= b THEN a ELSE b

---------------------------------------------------------------------------
(* models/TimeTracking.ts: calculateEntryHours *)

\* one term of the breakHours reduce of lines 188-196: an open break runs
\* until now
BreakTerm(b, t) ==
    IF b.end # None THEN b.end - b.start ELSE t - b.start

RECURSIVE BreakHours(_, _)
BreakHours(breaks, t) ==
    IF breaks = <<>> THEN 0
    ELSE BreakTerm(Head(breaks), t) + BreakHours(Tail(breaks), t)

\* one term of the reduce of lines 255-257: an open break counts 0
ClosedBreakTerm(b) ==
    IF b.end # None THEN b.end - b.start ELSE 0

RECURSIVE ClosedBreakHours(_)
ClosedBreakHours(breaks) ==
    IF breaks = <<>> THEN 0
    ELSE ClosedBreakTerm(Head(breaks)) + ClosedBreakHours(Tail(breaks))

\* lines 239-245 with the duration of the closed break left as it was
CloseBreak_EndOnly(b, c) ==
    IF b.end = None THEN [b EXCEPT !.end = c] ELSE b

\* lines 239-245: every break without end is closed at the checkout instant
CloseBreak(b, c) ==
    IF b.end = None
    THEN [b EXCEPT !.end = c, !.duration = (c - b.start) \div MsPerMinute]
    ELSE b

CloseBreaks(breaks, c) ==
    [i \in DOMAIN breaks |-> CloseBreak(breaks[i], c)]

\* lines 204-223 with the test of the hour left out
AutoCheckoutReason_NewDayOnly(entry, t) ==
    IF getMadaDateString(entry.checkIn) # getMadaDateString(t)
    THEN "nouveau jour (Mada)"
    ELSE ""

\* lines 204-223: the reason string, "" when auto-checkout is not due
AutoCheckoutReason(entry, t) ==
    LET isNewDay == getMadaDateString(entry.checkIn) # getMadaDateString(t)
        madaTime == getMadaTime(t)
    IN  IF getUTCHours(madaTime) = 0 \/ isNewDay
        THEN (IF isNewDay THEN "nouveau jour (Mada)" ELSE "minuit atteint (Mada)")
        ELSE ""

\* lines 228-236: the instant the entry is closed at
FinalCheckoutTime(reason, t) ==
    IF reason = "nouveau jour" THEN LocalEndOfYesterday(t) ELSE t

\* line 182: entry.checkOut || now
EndTime_Now(entry, t) == t

EndTime(entry, t) ==
    IF entry.checkOut # None THEN entry.checkOut ELSE t

\* lines 261-272 without the 8 hour cap
CapHours_NoCap(entry) ==
    LET rawNetHours == Max(0, entry.totalHours - entry.breakHours)
    IN  [entry EXCEPT !.netHours = rawNetHours, !.overtimeHours = 0]

\* lines 261-272: net and overtime hours from the raw total and break hours
CapHours(entry) ==
    LET rawNetHours == Max(0, entry.totalHours - entry.breakHours)
    IN  IF entry.overtimeStarted
        THEN [entry EXCEPT !.netHours = EightHours,
                           !.overtimeHours = Max(0, rawNetHours - EightHours)]
        ELSE [entry EXCEPT !.netHours = Min(EightHours, rawNetHours),
                           !.overtimeHours = 0]

\* lines 274-279 with the thresholds applied to totalHours
SetStatus_Total(entry) ==
    IF entry.checkOut = None
    THEN [entry EXCEPT !.status = "in_progress"]
    ELSE [entry EXCEPT !.status =
            IF entry.totalHours >= EightHours THEN "completed"
            ELSE IF entry.totalHours >= FourHours THEN "partial"
            ELSE "present"]

\* lines 274-279
SetStatus(entry) ==
    IF entry.checkOut = None
    THEN [entry EXCEPT !.status = "in_progress"]
    ELSE [entry EXCEPT !.status =
            IF entry.netHours + entry.overtimeHours >= EightHours THEN "completed"
            ELSE IF entry.netHours >= FourHours THEN "partial"
            ELSE "present"]

\* lines 173-282; t is the value of new Date() inside the function.  The
\* result carries the mutated entry next to the returned flags.
calculateEntryHours(entry, t, forceCheckout) ==
    IF entry.checkIn = None
    THEN [entry |-> [entry EXCEPT !.totalHours = 0, !.breakHours = 0, !.netHours = 0],
          shouldAutoCheckout |-> FALSE, autoCheckoutReason |-> ""]
    ELSE
      LET endTime == EndTime(entry, t)
          e1 == [entry EXCEPT !.totalHours = endTime - entry.checkIn,
                              !.breakHours = BreakHours(entry.breaks, t)]
          reason == IF entry.checkOut = None THEN AutoCheckoutReason(entry, t) ELSE ""
          shouldAutoCheckout == reason # ""
          fire == entry.checkOut = None /\ (shouldAutoCheckout \/ forceCheckout)
          final == FinalCheckoutTime(reason, t)
          closed == CloseBreaks(e1.breaks, final)
          e2 == IF fire
                THEN [e1 EXCEPT !.breaks = closed,
                                !.checkOut = final,
                                !.isPaused = FALSE,
                                !.totalHours = final - entry.checkIn,
                                !.breakHours = ClosedBreakHours(closed)]
                ELSE e1
      IN  [entry |-> SetStatus(CapHours(e2)),
           shouldAutoCheckout |-> shouldAutoCheckout,
           autoCheckoutReason |-> reason]

---------------------------------------------------------------------------
(* models/TimeTracking.ts: the collection and the entry resolver *)

NoDoc == [user |-> "", month |-> 0, entries |-> <<>>, totalHoursMonth |-> 0]

\* Model.findOne({ month, year }): the filter without the user
findOne_AnyUser(st, userId, month) ==
    IF \E d \in st : d.month = month
    THEN CHOOSE d \in st : d.month = month
    ELSE NoDoc

\* Model.findOne({ user, month, year })
findOne(st, userId, month) ==
    IF \E d \in st : d.user = userId /\ d.month = month
    THEN CHOOSE d \in st : d.user = userId /\ d.month = month
    ELSE NoDoc

\* lines 161-170 with the month left out of the filter
getCurrentMonthTracking_AnyMonth(st, userId, t) ==
    IF \E d \in st : d.user = userId
    THEN CHOOSE d \in st : d.user = userId
    ELSE NoDoc

\* lines 161-170
getCurrentMonthTracking(st, userId, t) ==
    findOne(st, userId, getMadaDateComponents(t))

\* document.save() on a collection without the unique index
SaveOk_NoIndex(st, old, doc) == TRUE

\* document.save(): a new document is inserted, and the unique index on
\* (user, month, year) of line 158 rejects a second one with the same key;
\* an existing document is written back whole
SaveOk(st, old, doc) ==
    old # NoDoc \/ ~(\E d \in st : d.user = doc.user /\ d.month = doc.month)

Save(st, old, doc) ==
    IF SaveOk(st, old, doc) THEN (st \ {old}) \cup {doc} ELSE st

\* Array.prototype.findIndex, 0 when no element matches
RECURSIVE FindIndexFrom(_, _, _)
FindIndexFrom(entries, day, i) ==
    IF i > Len(entries) THEN 0
    ELSE IF getMadaDateString(entries[i].date) = day THEN i
    ELSE FindIndexFrom(entries, day, i + 1)

\* entries.find(entry => entry.date.toDateString() === today), 0 when none
RECURSIVE FindTodayFrom(_, _, _)
FindTodayFrom(entries, today, i) ==
    IF i > Len(entries) THEN 0
    ELSE IF toDateString(entries[i].date) = today THEN i
    ELSE FindTodayFrom(entries, today, i + 1)

\* lines 305-307 with the day taken in the zone of the server
ExistingEntryIndex_ServerDay(entries, entryDate) ==
    FindTodayFrom(entries, toDateString(entryDate), 1)

\* lines 305-307
ExistingEntryIndex(entries, entryDate) ==
    FindIndexFrom(entries, getMadaDateString(entryDate), 1)

RECURSIVE SumNetHours(_)
\* lines 325-328
SumNetHours(entries) ==
    IF entries = <<>> THEN 0
    ELSE Head(entries).netHours + SumNetHours(Tail(entries))

\* lines 316-322.  entries.push(newEntry) casts the plain object into a new
\* subdocument that takes the schema defaults; calculateEntryHours is then
\* called on the plain object.  Whether the subdocument sees that mutation
\* depends on the array implementation, so both outcomes are kept (linked).
PushNewEntry(entries, entryData, t, linked) ==
    LET newEntry == ObjectAssign(EntryDefaults, entryData)
    IN  Append(entries,
               IF linked THEN calculateEntryHours(newEntry, t, FALSE).entry
               ELSE newEntry)

\* lines 309-315
UpdateExistingEntry(entries, i, entryData, t) ==
    [entries EXCEPT ![i] =
        calculateEntryHours(ObjectAssign(entries[i], entryData), t, FALSE).entry]

\* lines 285-330, up to the save: the document that is saved
createOrUpdateEntry(st, userId, entryData, t, linked) ==
    LET month == getMadaDateComponents(entryData.date)
        found == findOne(st, userId, month)
        tracking == IF found = NoDoc
                    THEN [user |-> userId, month |-> month,
                          entries |-> <<>>, totalHoursMonth |-> 0]
                    ELSE found
        i == ExistingEntryIndex(tracking.entries, entryData.date)
        entries == IF i >= 1
                   THEN UpdateExistingEntry(tracking.entries, i, entryData, t)
                   ELSE PushNewEntry(tracking.entries, entryData, t, linked)
    IN  [old |-> found,
         doc |-> [tracking EXCEPT !.entries = entries,
                                  !.totalHoursMonth = SumNetHours(entries)]]

---------------------------------------------------------------------------
(* controllers/timeTrackingController.ts *)

TodayEntryIndex(entries, t) == FindTodayFrom(entries, toDateString(t), 1)

\* the data of a response that carries none
NoData ==
    [kind |-> "none", totalHours |-> 0, breakHours |-> 0, netHours |-> 0,
     isWorking |-> FALSE, isPaused |-> FALSE, timeToEightHours |-> 0,
     hasReachedEightHours |-> FALSE]

Result(op, u, ok) ==
    [op |-> op, user |-> u, ok |-> ok, autoDue |-> FALSE, data |-> NoData]

\* lines 76-95: the data of the response of checkOut, read from the saved
\* document with the day taken in the zone of the server
CheckOutData(updatedTracking, t) ==
    LET k == TodayEntryIndex(updatedTracking.entries, t)
        netHours == IF k = 0 THEN 0 ELSE updatedTracking.entries[k].netHours
    IN  [NoData EXCEPT !.kind = "checkOut",
                       !.netHours = netHours,
                       !.hasReachedEightHours = netHours >= EightHours]

\* one more request handled
Served ==
    /\ reqs < MaxReqs
    /\ reqs' = reqs + 1
    /\ UNCHANGED <<now, serverTz, monthStartDay, calcVars, concVars>>

\* lines 9-35
checkIn(u) ==
    \E linked \in BOOLEAN :
      LET r == createOrUpdateEntry(store, u,
                 [date |-> now, checkIn |-> now, status |-> "present"], now, linked)
      IN  /\ store' = Save(store, r.old, r.doc)
          /\ last' = Result("checkIn", u, SaveOk(store, r.old, r.doc))
          /\ Served

\* lines 40-103
checkOut(u) ==
    LET tracking == getCurrentMonthTracking(store, u, now)
        i == IF tracking = NoDoc THEN 0 ELSE TodayEntryIndex(tracking.entries, now)
        rejected == tracking = NoDoc \/ i = 0 \/ tracking.entries[i].checkIn = None
    IN  /\ IF rejected
           THEN /\ store' = store
                /\ last' = Result("checkOut", u, FALSE)
           ELSE \E linked \in BOOLEAN :
                  LET r == createOrUpdateEntry(store, u,
                             [date |-> now, checkOut |-> now], now, linked)
                  IN  /\ store' = Save(store, r.old, r.doc)
                      /\ last' = [Result("checkOut", u, SaveOk(store, r.old, r.doc))
                                    EXCEPT !.data = CheckOutData(r.doc, now)]
        /\ Served

\* lines 108-157 without the assignment of isPaused
startPause_KeepFlag(u) ==
    LET tracking == getCurrentMonthTracking(store, u, now)
        i == IF tracking = NoDoc THEN 0 ELSE TodayEntryIndex(tracking.entries, now)
        rejected == \/ tracking = NoDoc
                    \/ i = 0
                    \/ tracking.entries[i].checkIn = None
                    \/ tracking.entries[i].checkOut # None
    IN  /\ IF rejected
           THEN /\ store' = store
                /\ last' = Result("startPause", u, FALSE)
           ELSE /\ Len(tracking.entries[i].breaks) < MaxBreaks
                /\ store' = Save(store, tracking,
                      [tracking EXCEPT !.entries[i] =
                          [@ EXCEPT !.breaks = Append(@, NewBreak(now))]])
                /\ last' = Result("startPause", u, TRUE)
        /\ Served

\* lines 108-157
startPause(u) ==
    LET tracking == getCurrentMonthTracking(store, u, now)
        i == IF tracking = NoDoc THEN 0 ELSE TodayEntryIndex(tracking.entries, now)
        rejected == \/ tracking = NoDoc
                    \/ i = 0
                    \/ tracking.entries[i].checkIn = None
                    \/ tracking.entries[i].checkOut # None
    IN  /\ IF rejected
           THEN /\ store' = store
                /\ last' = Result("startPause", u, FALSE)
           ELSE /\ Len(tracking.entries[i].breaks) < MaxBreaks
                /\ store' = Save(store, tracking,
                      [tracking EXCEPT !.entries[i] =
                          [@ EXCEPT !.breaks = Append(@, NewBreak(now)),
                                    !.isPaused = TRUE]])
                /\ last' = Result("startPause", u, TRUE)
        /\ Served

\* lines 162-224
resumeWork(u) ==
    LET tracking == getCurrentMonthTracking(store, u, now)
        i == IF tracking = NoDoc THEN 0 ELSE TodayEntryIndex(tracking.entries, now)
        noEntry == tracking = NoDoc \/ i = 0 \/ tracking.entries[i].checkIn = None
        n == IF noEntry THEN 0 ELSE Len(tracking.entries[i].breaks)
        rejected == noEntry \/ n = 0 \/ tracking.entries[i].breaks[n].end # None
    IN  /\ IF rejected
           THEN /\ store' = store
                /\ last' = Result("resumeWork", u, FALSE)
           ELSE /\ store' = Save(store, tracking,
                      [tracking EXCEPT !.entries[i] =
                          [@ EXCEPT !.breaks[n] =
                                      [@ EXCEPT !.end = now,
                                                !.duration = (now - tracking.entries[i].breaks[n].start) \div MsPerMinute],
                                    !.isPaused = FALSE,
                                    !.lastResumeTime = now]])
                /\ last' = Result("resumeWork", u, TRUE)
        /\ Served

\* lines 229-302
continueWork(u) ==
    LET tracking == getCurrentMonthTracking(store, u, now)
        i == IF tracking = NoDoc THEN 0 ELSE TodayEntryIndex(tracking.entries, now)
        rejected == \/ tracking = NoDoc
                    \/ i = 0
                    \/ tracking.entries[i].checkIn = None
                    \/ tracking.entries[i].checkOut = None
    IN  /\ IF rejected
           THEN /\ store' = store
                /\ last' = Result("continueWork", u, FALSE)
           ELSE LET todayEntry == tracking.entries[i]
                    previousCheckOut == todayEntry.checkOut
                    reopened == [todayEntry EXCEPT
                        !.breaks = Append(@, [start |-> previousCheckOut,
                                              end |-> now,
                                              duration |-> (now - previousCheckOut) \div MsPerMinute]),
                        !.checkOut = None,
                        !.isPaused = FALSE,
                        !.lastResumeTime = now]
                IN  /\ Len(todayEntry.breaks) < MaxBreaks
                    /\ store' = Save(store, tracking,
                          [tracking EXCEPT !.entries[i] =
                              calculateEntryHours(reopened, now, FALSE).entry])
                    /\ last' = Result("continueWork", u, TRUE)
        /\ Served

---------------------------------------------------------------------------
(* models/TimeTracking.ts: getTodayRealTimeStatus *)

\* lines 379-388: the reduce recomputes every entry that is still open
RecalcOpenEntry(e, t) ==
    IF e.checkIn # None /\ e.checkOut = None
    THEN calculateEntryHours(e, t, FALSE).entry
    ELSE e

RecalcOpenEntries(entries, t) ==
    [k \in DOMAIN entries |-> RecalcOpenEntry(entries[k], t)]

\* line 377, evaluated after calculateEntryHours has mutated the entry
StatusSaveDue(r) == r.shouldAutoCheckout /\ r.entry.checkOut = None

\* lines 339-394: the document as this call leaves it in the store
StatusStoredDoc(tracking, i, t) ==
    LET r == calculateEntryHours(tracking.entries[i], t, FALSE)
        entries == RecalcOpenEntries([tracking.entries EXCEPT ![i] = r.entry], t)
    IN  IF StatusSaveDue(r)
        THEN [tracking EXCEPT !.entries = entries,
                              !.totalHoursMonth = SumNetHours(entries)]
        ELSE tracking

\* line 348: return null
StatusNull == [NoData EXCEPT !.kind = "null"]

\* lines 355-370: the snapshot returned when today has no entry with a checkIn
StatusEmpty == [NoData EXCEPT !.kind = "empty", !.timeToEightHours = 8 * 60]

\* lines 396-414 with the entry taken as it is stored
StatusSnapshot_Stored(tracking, i, t) ==
    LET entry == tracking.entries[i]
        remainingMs == Max(0, EightHours - entry.netHours)
    IN  [NoData EXCEPT !.kind = "entry",
                       !.totalHours = entry.totalHours,
                       !.breakHours = entry.breakHours,
                       !.netHours = entry.netHours,
                       !.isWorking = entry.checkOut = None,
                       !.isPaused = entry.isPaused,
                       !.timeToEightHours = remainingMs \div MsPerMinute]

\* lines 396-414: the snapshot of the entry as calculateEntryHours left it
StatusSnapshot(tracking, i, t) ==
    LET r == calculateEntryHours(tracking.entries[i], t, FALSE)
        entry == IF StatusSaveDue(r) THEN RecalcOpenEntry(r.entry, t) ELSE r.entry
        remainingMs == Max(0, EightHours - entry.netHours)
    IN  [NoData EXCEPT !.kind = "entry",
                       !.totalHours = entry.totalHours,
                       !.breakHours = entry.breakHours,
                       !.netHours = entry.netHours,
                       !.isWorking = entry.checkOut = None,
                       !.isPaused = entry.isPaused,
                       !.timeToEightHours = remainingMs \div MsPerMinute]

getTodayRealTimeStatus(u) ==
    LET tracking == findOne(store, u, getMadaDateComponents(now))
        i == IF tracking = NoDoc THEN 0 ELSE ExistingEntryIndex(tracking.entries, now)
        noEntry == tracking = NoDoc \/ i = 0 \/ tracking.entries[i].checkIn = None
    IN  /\ IF noEntry
           THEN /\ store' = store
                /\ last' = [Result("status", u, tracking # NoDoc) EXCEPT !.data =
                              IF tracking = NoDoc THEN StatusNull ELSE StatusEmpty]
           ELSE /\ store' = Save(store, tracking, StatusStoredDoc(tracking, i, now))
                /\ last' = [Result("status", u, TRUE) EXCEPT
                              !.autoDue =
                                 calculateEntryHours(tracking.entries[i], now, FALSE).shouldAutoCheckout,
                              !.data = StatusSnapshot(tracking, i, now)]
        /\ Served

---------------------------------------------------------------------------
(* The engine driven by one request at a time *)

\* the wall clock advances to the next instant at which a request arrives
Tick ==
    /\ \E k \in 1..(Min(MaxTick, Len(ClockHours)) - 1) :
          /\ now = ClockHours[k] * MsPerHour
          /\ now' = ClockHours[k + 1] * MsPerHour
    /\ last' = Result("tick", "", TRUE)
    /\ UNCHANGED <<serverTz, monthStartDay, store, reqs, calcVars, concVars>>

NoReturn == [shouldAutoCheckout |-> FALSE, autoCheckoutReason |-> ""]

CalcIdle ==
    /\ cEntry = EntryDefaults
    /\ cPrev = EntryDefaults
    /\ cOrig = EntryDefaults
    /\ cRet = NoReturn
    /\ cNow = None
    /\ cPrevNow = None
    /\ cCount = 0

NoPending == [old |-> NoDoc, doc |-> NoDoc]

ConcIdle ==
    /\ pc = [p \in Procs |-> "idle"]
    /\ pending = [p \in Procs |-> NoPending]
    /\ outcome = [p \in Procs |-> ""]

Init ==
    /\ now = ClockHours[1] * MsPerHour
    /\ serverTz \in ServerTzHours
    /\ monthStartDay \in {1, 1000}
    /\ store = {}
    /\ last = Result("init", "", TRUE)
    /\ reqs = 0
    /\ CalcIdle
    /\ ConcIdle

Next ==
    \/ Tick
    \/ \E u \in Users : checkIn(u)
    \/ \E u \in Users : checkOut(u)
    \/ \E u \in Users : startPause(u)
    \/ \E u \in Users : resumeWork(u)
    \/ \E u \in Users : continueWork(u)
    \/ \E u \in Users : getTodayRealTimeStatus(u)

Spec == Init /\ [][Next]_vars

---------------------------------------------------------------------------
(* Requests in flight at the same time.  The server runs the handlers on one
   thread, so a handler is interleaved with the others only at its awaits:
   createOrUpdateEntry runs from the answer of findOne (line 292) to the call
   of save (line 330) in one piece, and the collection applies the save, with
   its unique index, in a second piece. *)

\* checkIn, lines 9-18, and createOrUpdateEntry, lines 285-328: the document
\* is read and the one to be saved is built
checkInFind(p, u) ==
    /\ pc[p] = "idle"
    /\ \E linked \in BOOLEAN :
          pending' = [pending EXCEPT ![p] =
              createOrUpdateEntry(store, u,
                  [date |-> now, checkIn |-> now, status |-> "present"], now, linked)]
    /\ pc' = [pc EXCEPT ![p] = "saving"]
    /\ UNCHANGED <<outcome, mainVars, calcVars>>

\* line 330 and checkIn, lines 20-34: the save is applied or rejected by the
\* unique index; a rejection is thrown through createOrUpdateEntry into the
\* catch of the handler
checkInSave(p) ==
    /\ pc[p] = "saving"
    /\ LET r == pending[p]
           ok == SaveOk(store, r.old, r.doc)
       IN  /\ store' = Save(store, r.old, r.doc)
           /\ outcome' = [outcome EXCEPT ![p] = IF ok THEN "success" ELSE "error"]
           /\ last' = Result("checkIn", r.doc.user, ok)
    /\ pc' = [pc EXCEPT ![p] = "done"]
    /\ UNCHANGED <<pending, now, serverTz, monthStartDay, reqs, calcVars>>

NextConc ==
    \/ Tick
    \/ \E p \in Procs, u \in Users : checkInFind(p, u)
    \/ \E p \in Procs : checkInSave(p)

SpecConc == Init /\ [][NextConc]_vars

---------------------------------------------------------------------------
(* The handlers called by two users, one request at a time *)

TwoUsers == {"u1", "u2"}
\* cap on the number of requests of the two users together
MaxUserReqs == 3

NextUsers ==
    \/ Tick
    \/ reqs < MaxUserReqs /\ \E u \in TwoUsers : checkIn(u)
    \/ reqs < MaxUserReqs /\ \E u \in TwoUsers : checkOut(u)
    \/ reqs < MaxUserReqs /\ \E u \in TwoUsers : startPause(u)
    \/ reqs < MaxUserReqs /\ \E u \in TwoUsers : resumeWork(u)
    \/ reqs < MaxUserReqs /\ \E u \in TwoUsers : continueWork(u)
    \/ reqs < MaxUserReqs /\ \E u \in TwoUsers : getTodayRealTimeStatus(u)

SpecUsers == Init /\ [][NextUsers]_vars

---------------------------------------------------------------------------
(* The hours calculator alone, run on entries drawn from bounded sets *)

\* cap on the number of successive runs on one entry
MaxCalcRuns == 2

HalfHour == 30 * MsPerMinute

\* 09:00, 10:00, 10:30, 17:00 and 23:00 Madagascar time of day 0, then 00:00
\* and 00:30 of day 1
CalcTimes ==
    {6 * MsPerHour, 7 * MsPerHour, 7 * MsPerHour + HalfHour, 14 * MsPerHour,
     20 * MsPerHour, 21 * MsPerHour, 21 * MsPerHour + HalfHour}

CalcBreakChoices ==
    {[start |-> 7 * MsPerHour, end |-> 7 * MsPerHour + HalfHour, duration |-> 30],
     [start |-> 7 * MsPerHour, end |-> None, duration |-> 0],
     [start |-> 20 * MsPerHour, end |-> None, duration |-> 0],
     [start |-> 14 * MsPerHour, end |-> 20 * MsPerHour, duration |-> 360]}

CalcBreakSeqs == UNION {[1..k -> CalcBreakChoices] : k \in 0..MaxBreaks}

\* derived fields as a previous computation may have left them
CalcStale ==
    {[totalHours |-> 0, breakHours |-> 0, netHours |-> 0, overtimeHours |-> 0,
      status |-> "absent", isPaused |-> FALSE],
     [totalHours |-> 2 * MsPerHour, breakHours |-> MsPerHour, netHours |-> MsPerHour,
      overtimeHours |-> MsPerHour, status |-> "late", isPaused |-> TRUE]}

CalcEntries ==
    {ObjectAssign(ObjectAssign(EntryDefaults, stale),
                  [date |-> 6 * MsPerHour, checkIn |-> ci, checkOut |-> co,
                   breaks |-> bs, overtimeStarted |-> ot]) :
        ci \in {None, 6 * MsPerHour, 20 * MsPerHour, 21 * MsPerHour},
        co \in {None, 6 * MsPerHour, 14 * MsPerHour, 21 * MsPerHour},
        bs \in CalcBreakSeqs,
        ot \in BOOLEAN,
        stale \in CalcStale}

RECURSIVE LatestBreakInstant(_)
LatestBreakInstant(breaks) ==
    IF breaks = <<>> THEN None
    ELSE Max(Max(Head(breaks).start, Head(breaks).end), LatestBreakInstant(Tail(breaks)))

\* the latest instant recorded in an entry: the clock cannot be behind it
LatestInstant(e) ==
    Max(Max(e.checkIn, e.checkOut), LatestBreakInstant(e.breaks))

MainIdle ==
    /\ now = ClockHours[1] * MsPerHour
    /\ monthStartDay = 1000
    /\ store = {}
    /\ last = Result("init", "", TRUE)
    /\ reqs = 0

InitCalc ==
    /\ MainIdle
    /\ ConcIdle
    /\ serverTz \in ServerTzHours
    /\ cOrig \in CalcEntries
    /\ cEntry = cOrig
    /\ cPrev = cOrig
    /\ cRet = NoReturn
    /\ cNow = None
    /\ cPrevNow = None
    /\ cCount = 0

\* one call of calculateEntryHours(entry) at instant t
RunCalc ==
    /\ cCount < MaxCalcRuns
    /\ \E t \in CalcTimes :
         /\ t >= cNow
         /\ t >= LatestInstant(cEntry)
         /\ LET r == calculateEntryHours(cEntry, t, FALSE)
            IN  /\ cEntry' = r.entry
                /\ cRet' = [shouldAutoCheckout |-> r.shouldAutoCheckout,
                            autoCheckoutReason |-> r.autoCheckoutReason]
         /\ cNow' = t
    /\ cPrevNow' = cNow
    /\ cPrev' = cEntry
    /\ cCount' = cCount + 1
    /\ UNCHANGED <<cOrig, mainVars, concVars>>

NextCalc == RunCalc

SpecCalc == InitCalc /\ [][NextCalc]_vars

---------------------------------------------------------------------------
(* Properties *)

MutatingOps == {"checkIn", "checkOut", "startPause", "resumeWork", "continueWork"}

\* 23:59:59.999 Madagascar time of the Madagascar day of instant t
EndOfMadaDay(t) ==
    (getMadaDateString(t) + 1) * MsPerDay - 1 - MADA_TIMEZONE_OFFSET

OpenPastDay(e, t) ==
    /\ e.checkIn # None
    /\ e.checkOut = None
    /\ getMadaDateString(e.checkIn) < getMadaDateString(t)

NoOpenBreak(breaks) == \A k \in DOMAIN breaks : breaks[k].end # None

\* C1: after every successful mutating operation, totalHoursMonth of every
\* stored MonthlyTracking equals the sum of the stored netHours of its entries.
C1_MonthlyTotalIsSumOfNet ==
    (last.op \in MutatingOps /\ last.ok) =>
        \A d \in store : d.totalHoursMonth = SumNetHours(d.entries)

\* C2: under sequential execution no MonthlyTracking holds two entries whose
\* dates fall on the same Madagascar calendar day.
C2_OneEntryPerMadaDay ==
    \A d \in store : \A i, j \in DOMAIN d.entries :
        i # j => getMadaDateString(d.entries[i].date) # getMadaDateString(d.entries[j].date)

\* a document holding the entries of two days, the first one checked out and
\* the second one checked in
C2_Witness ==
    \E d \in store :
        /\ Len(d.entries) = 2
        /\ d.entries[1].checkIn # None /\ d.entries[1].checkOut # None
        /\ d.entries[2].checkIn # None
        /\ last.op = "checkIn" /\ last.ok

\* C3: calculateEntryHours on an entry checked in on Madagascar day D, with
\* no checkOut, at an instant of a later Madagascar day, sets checkOut to
\* 23:59:59.999 Madagascar time of day D.
C3_RolloverClosesAtEndOfDay ==
    (cCount >= 1 /\ OpenPastDay(cPrev, cNow)) =>
        cEntry.checkOut = EndOfMadaDay(cPrev.checkIn)

\* C4: when getTodayRealTimeStatus finds auto-checkout due for the open
\* today-entry, the stored document afterwards has that entry's checkOut set
\* and totalHoursMonth recomputed.
C4_StatusReadPersistsAutoCheckout ==
    (last.op = "status" /\ last.autoDue) =>
        LET d == findOne(store, last.user, getMadaDateComponents(now))
            i == ExistingEntryIndex(d.entries, now)
        IN  /\ i >= 1
            /\ d.entries[i].checkOut # None
            /\ d.totalHoursMonth = SumNetHours(d.entries)

\* C5: after a status read or a mutating call by a user, no entry of that
\* user whose checkIn lies on a past Madagascar day is still open in the store.
C5_NoPastDayEntryLeftOpen ==
    (last.op \in MutatingOps \cup {"status"}) =>
        \A d \in store : d.user = last.user =>
            \A k \in DOMAIN d.entries : ~OpenPastDay(d.entries[k], now)

\* C6: in every reachable state every stored entry has totalHours >= 0.
C6_TotalHoursNonNegative ==
    \A d \in store : \A k \in DOMAIN d.entries : d.entries[k].totalHours >= 0

\* C7: after calculateEntryHours on an entry with a checkIn, with rawNet =
\* max(0, totalHours - breakHours): netHours = 8 and overtimeHours =
\* max(0, rawNet - 8) if overtimeStarted, else netHours = min(8, rawNet) and
\* overtimeHours = 0; so 0 <= netHours <= 8.
C7_NetAndOvertimeSplit ==
    (cCount >= 1 /\ cPrev.checkIn # None) =>
        LET rawNet == Max(0, cEntry.totalHours - cEntry.breakHours)
        IN  /\ cEntry.overtimeStarted =>
                /\ cEntry.netHours = EightHours
                /\ cEntry.overtimeHours = Max(0, rawNet - EightHours)
            /\ ~cEntry.overtimeStarted =>
                /\ cEntry.netHours = Min(EightHours, rawNet)
                /\ cEntry.overtimeHours = 0
            /\ 0 <= cEntry.netHours
            /\ cEntry.netHours <= EightHours

\* both branches: more than 8 net hours without overtime are capped, and
\* with overtime started the excess is in overtimeHours
C7_Witness ==
    /\ cCount >= 1
    /\ cPrev.checkIn # None
    /\ cEntry.totalHours - cEntry.breakHours > EightHours
    /\ cEntry.breaks # <<>>
    /\ \/ ~cEntry.overtimeStarted /\ cEntry.netHours = EightHours
       \/ cEntry.overtimeStarted /\ cEntry.overtimeHours > 0

\* C8: after calculateEntryHours on an entry without checkIn, totalHours,
\* breakHours, netHours and overtimeHours are 0, and status, checkOut and
\* breaks are unchanged.
C8_NoCheckInZeroesDerivedHours ==
    (cCount >= 1 /\ cPrev.checkIn = None) =>
        /\ cEntry.totalHours = 0
        /\ cEntry.breakHours = 0
        /\ cEntry.netHours = 0
        /\ cEntry.overtimeHours = 0
        /\ cEntry.status = cPrev.status
        /\ cEntry.checkOut = cPrev.checkOut
        /\ cEntry.breaks = cPrev.breaks

\* C9: on an entry that has a checkOut and no open break, two successive
\* runs of calculateEntryHours, at any two instants, leave the same
\* totalHours, breakHours, netHours, overtimeHours, status, checkOut and breaks.
C9_ClosedEntryIdempotent ==
    (cCount >= 2 /\ cOrig.checkOut # None /\ NoOpenBreak(cOrig.breaks)) =>
        /\ cEntry.totalHours = cPrev.totalHours
        /\ cEntry.breakHours = cPrev.breakHours
        /\ cEntry.netHours = cPrev.netHours
        /\ cEntry.overtimeHours = cPrev.overtimeHours
        /\ cEntry.status = cPrev.status
        /\ cEntry.checkOut = cPrev.checkOut
        /\ cEntry.breaks = cPrev.breaks

\* a closed entry with breaks, recomputed at two different instants, whose
\* stored hours were stale before the first run
C9_Witness ==
    /\ cCount = 2
    /\ cOrig.checkIn # None /\ cOrig.checkOut # None
    /\ cOrig.breaks # <<>> /\ NoOpenBreak(cOrig.breaks)
    /\ cPrevNow < cNow
    /\ cOrig.totalHours # cEntry.totalHours
    /\ cEntry.totalHours > 0

\* the entry of the scenario: check-in 09:00, break 10:00-10:30, checkout
\* 17:00 Madagascar time
ScenarioEntry(e) ==
    /\ e.checkIn = 6 * MsPerHour
    /\ e.checkOut = 14 * MsPerHour
    /\ e.breaks = <<[start |-> 7 * MsPerHour, end |-> 7 * MsPerHour + HalfHour,
                     duration |-> 30]>>
    /\ ~e.overtimeStarted

\* C10: after calculateEntryHours on an entry with a checkIn, status is
\* in_progress iff checkOut is absent; otherwise completed iff netHours +
\* overtimeHours >= 8, partial iff that sum is < 8 and netHours >= 4, present
\* otherwise; 8 h total with a 0.5 h break gives netHours 7.5 and partial.
C10_StatusFromHours ==
    (cCount >= 1 /\ cPrev.checkIn # None) =>
        LET sum == cEntry.netHours + cEntry.overtimeHours
        IN  /\ (cEntry.status = "in_progress") <=> (cEntry.checkOut = None)
            /\ cEntry.checkOut # None =>
                /\ (cEntry.status = "completed") <=> (sum >= EightHours)
                /\ (cEntry.status = "partial") <=>
                      (sum < EightHours /\ cEntry.netHours >= FourHours)
                /\ (cEntry.status = "present") <=>
                      (sum < EightHours /\ cEntry.netHours < FourHours)
            /\ ScenarioEntry(cPrev) =>
                /\ cEntry.totalHours = EightHours
                /\ cEntry.breakHours = HalfHour
                /\ cEntry.netHours = EightHours - HalfHour
                /\ cEntry.status = "partial"

C10_Witness ==
    /\ cCount = 1
    /\ ScenarioEntry(cOrig)
    /\ cEntry.status = "partial"
    /\ cEntry.netHours = EightHours - HalfHour


---------------------------------------------------------------------------
(* Properties of the handlers and of the resolver *)

\* the UTC+3 calendar day and hour of an instant, written out independently
\* of dateUtils
Utc3Day(t) == (t + 3 * MsPerHour) \div MsPerDay

Utc3Hour(t) == ((t + 3 * MsPerHour) % MsPerDay) \div MsPerHour

\* the stored entries of user u whose date is on the UTC+3 day of instant t
EntriesOfDay(st, u, t) ==
    UNION {{d.entries[k] : k \in {j \in DOMAIN d.entries :
                                    Utc3Day(d.entries[j].date) = Utc3Day(t)}} :
           d \in {x \in st : x.user = u}}

\* C11: after every successful checkIn at instant t the stored entry for
\* t's Madagascar day has checkIn = t and status = present.
C11_CheckInStoresPresent ==
    (last.op = "checkIn" /\ last.ok) =>
        \E e \in EntriesOfDay(store, last.user, now) :
            e.checkIn = now /\ e.status = "present"

\* C12: checkOut succeeds only if today's entry exists, has a checkIn and
\* has no checkOut; on an entry already checked out the call is rejected and
\* the store is left unchanged.
C12_CheckOutNeedsOpenEntry ==
    [][ (last'.op = "checkOut") =>
          /\ last'.ok =>
                \E e \in EntriesOfDay(store, last'.user, now) :
                    e.checkIn # None /\ e.checkOut = None
          /\ (\E e \in EntriesOfDay(store, last'.user, now) : e.checkOut # None) =>
                (~last'.ok /\ store' = store) ]_vars

\* today's entry is in a state in which the operation has to be rejected
MustReject(op, e) ==
    \/ op = "startPause" /\ (e.checkIn = None \/ e.checkOut # None)
    \/ op = "resumeWork" /\ (e.breaks = <<>> \/ e.breaks[Len(e.breaks)].end # None)
    \/ op = "continueWork" /\ e.checkOut = None

\* C13: startPause on an entry without checkIn or with a checkOut,
\* resumeWork on an entry without break or whose last break has an end, and
\* continueWork on an entry without checkOut are rejected and leave the
\* stored MonthlyTracking as it was.
C13_RejectedCallsChangeNothing ==
    [][ (\E e \in EntriesOfDay(store, last'.user, now) : MustReject(last'.op, e)) =>
          (~last'.ok /\ store' = store) ]_vars

\* C17: whatever the zone of the server, checkOut, startPause, resumeWork
\* and continueWork issued at instant t take as today's entry the entry dated
\* on the UTC+3 day of t when there is one, and never an entry of another day.
C17_TodayIsTheUtc3Day ==
    [][ (last'.op \in {"checkOut", "startPause", "resumeWork", "continueWork"}) =>
          LET tracking == getCurrentMonthTracking(store, last'.user, now)
              i == IF tracking = NoDoc THEN 0 ELSE TodayEntryIndex(tracking.entries, now)
          IN  /\ i # 0 => Utc3Day(tracking.entries[i].date) = Utc3Day(now)
              /\ EntriesOfDay(store, last'.user, now) # {} => i # 0 ]_vars


\* the (month, year) key of the UTC+3 calendar, written out independently of
\* dateUtils
Utc3Month(t) == IF Utc3Day(t) >= monthStartDay THEN 2 ELSE 1

\* the entries of the document of user u for month key m, <<>> when there is
\* no such document
MonthEntries(st, u, m) ==
    LET ds == {d \in st : d.user = u /\ d.month = m}
    IN  IF ds = {} THEN <<>> ELSE (CHOOSE d \in ds : TRUE).entries

\* C16: a call of createOrUpdateEntry at instant t works on the document of
\* t's UTC+3 (month, year) and on no other; it updates the entry already dated
\* on t's UTC+3 day when there is one (even when the two instants are on
\* different UTC days), and otherwise appends a new, distinct entry.
C16_SameUtc3DaySameEntry ==
    [][ (last'.op = "checkIn" \/ (last'.op = "checkOut" /\ last'.ok)) =>
          LET u == last'.user
              m == Utc3Month(now)
              old == MonthEntries(store, u, m)
              new == MonthEntries(store', u, m)
              sameDay == {k \in DOMAIN old : Utc3Day(old[k].date) = Utc3Day(now)}
          IN  /\ \A d \in store : (d.user # u \/ d.month # m) => d \in store'
              /\ \A d \in store' : (d.user # u \/ d.month # m) => d \in store
              /\ Cardinality({d \in store' : d.user = u /\ d.month = m}) = 1
              /\ IF sameDay # {}
                 THEN /\ Len(new) = Len(old)
                      /\ \A k \in DOMAIN old :
                            IF k \in sameDay
                            THEN /\ new[k].date = now
                                 /\ last'.op = "checkIn" => new[k].checkIn = now
                                 /\ last'.op = "checkOut" => new[k].checkOut = now
                            ELSE new[k] = old[k]
                 ELSE /\ Len(new) = Len(old) + 1
                      /\ \A k \in DOMAIN old : new[k] = old[k]
                      /\ new[Len(new)].date = now ]_vars

\* two instants of one UTC day (20:00 and 01:00 Madagascar time) gave two
\* entries, and two instants of one UTC+3 day on two UTC days (01:00 and 03:00
\* Madagascar time) went to the same entry
C16_Witness ==
    /\ last.op = "checkOut" /\ last.ok
    /\ now = 24 * MsPerHour
    /\ \E d \in store :
          /\ Len(d.entries) = 2
          /\ d.entries[1].checkIn = 17 * MsPerHour
          /\ d.entries[2].checkIn = 22 * MsPerHour
          /\ d.entries[2].checkOut = 24 * MsPerHour


---------------------------------------------------------------------------
(* Properties of the automatic checkout *)

\* the last run of the calculator closed the entry by itself
AutoCheckoutFired == cCount >= 1 /\ cRet.shouldAutoCheckout

RECURSIVE SumBreakSpans(_)
\* the time covered by breaks that all have an end
SumBreakSpans(breaks) ==
    IF breaks = <<>> THEN 0
    ELSE (Head(breaks).end - Head(breaks).start) + SumBreakSpans(Tail(breaks))

\* C18: whenever calculateEntryHours fires auto-checkout, with c the instant
\* it chose: checkOut = c, every break that was open has end = c and
\* duration = (c - start) in minutes, the other breaks are as they were,
\* isPaused is false, totalHours and breakHours are computed against c, and
\* status is not in_progress.
C18_AutoCheckoutClosesEntry ==
    AutoCheckoutFired =>
        LET c == cEntry.checkOut
        IN  /\ cPrev.checkOut = None
            /\ c # None
            /\ Len(cEntry.breaks) = Len(cPrev.breaks)
            /\ \A k \in DOMAIN cPrev.breaks :
                  IF cPrev.breaks[k].end = None
                  THEN /\ cEntry.breaks[k].start = cPrev.breaks[k].start
                       /\ cEntry.breaks[k].end = c
                       /\ cEntry.breaks[k].duration * MsPerMinute = c - cPrev.breaks[k].start
                  ELSE cEntry.breaks[k] = cPrev.breaks[k]
            /\ ~cEntry.isPaused
            /\ cEntry.totalHours = c - cPrev.checkIn
            /\ cEntry.breakHours = SumBreakSpans(cEntry.breaks)
            /\ cEntry.status # "in_progress"

\* a paused entry with an open break and a closed one, closed by the run
C18_Witness ==
    /\ AutoCheckoutFired
    /\ cPrev.isPaused
    /\ Len(cPrev.breaks) = 2
    /\ cPrev.breaks[1].end # None
    /\ cPrev.breaks[2].end = None
    /\ cEntry.breaks[2].duration > 0
    /\ cEntry.breakHours > 0

\* C19: on an entry with a checkIn, calculateEntryHours fires auto-checkout
\* iff the entry has no checkOut and either the UTC+3 day of now differs from
\* that of checkIn or the UTC+3 hour of now is 0; when only the hour
\* condition holds the entry is closed at now; an entry that already has a
\* checkOut keeps its checkOut and its breaks.
C19_AutoCheckoutCondition ==
    (cCount >= 1 /\ cPrev.checkIn # None) =>
        LET newDay == Utc3Day(cNow) # Utc3Day(cPrev.checkIn)
            due == cPrev.checkOut = None /\ (newDay \/ Utc3Hour(cNow) = 0)
        IN  /\ cRet.shouldAutoCheckout <=> due
            /\ (cPrev.checkOut = None /\ cEntry.checkOut # None) <=> due
            /\ (due /\ ~newDay) => cEntry.checkOut = cNow
            /\ cPrev.checkOut # None =>
                  /\ cEntry.checkOut = cPrev.checkOut
                  /\ cEntry.breaks = cPrev.breaks

\* an entry checked in at 00:00 Madagascar time and recomputed at 00:30 of
\* the same day: only the hour condition holds
C19_Witness ==
    /\ cCount >= 1
    /\ cPrev.checkIn = 21 * MsPerHour
    /\ cPrev.checkOut = None
    /\ cNow = 21 * MsPerHour + HalfHour
    /\ cRet.shouldAutoCheckout
    /\ cRet.autoCheckoutReason = "minuit atteint (Mada)"
    /\ cEntry.checkOut = cNow


---------------------------------------------------------------------------
(* Properties of continueWork *)

RECURSIVE SpansUntil(_, _)
\* the time covered by breaks up to instant t, a break without end running
\* until t
SpansUntil(breaks, t) ==
    IF breaks = <<>> THEN 0
    ELSE (IF Head(breaks).end = None THEN t - Head(breaks).start
          ELSE Head(breaks).end - Head(breaks).start) + SpansUntil(Tail(breaks), t)

\* C20: after every successful continueWork at instant t on an entry whose
\* checkOut was c, the stored entry has no checkOut, its breaks end with a new
\* break from c to t, isPaused is false, lastResumeTime = t, and its hours
\* are those of an open entry at t.
C20_ContinueWorkReopens ==
    [][ (last'.op = "continueWork" /\ last'.ok) =>
          LET u == last'.user
              m == getMadaDateComponents(now)
              i == TodayEntryIndex(MonthEntries(store, u, m), now)
              old == MonthEntries(store, u, m)[i]
              new == MonthEntries(store', u, m)[i]
              n == Len(new.breaks)
          IN  /\ old.checkOut # None
              /\ new.checkOut = None
              /\ n = Len(old.breaks) + 1
              /\ SubSeq(new.breaks, 1, n - 1) = old.breaks
              /\ new.breaks[n].start = old.checkOut
              /\ new.breaks[n].end = now
              /\ ~new.isPaused
              /\ new.lastResumeTime = now
              /\ new.totalHours = now - new.checkIn
              /\ new.breakHours = SpansUntil(new.breaks, now)
              /\ new.status = "in_progress" ]_vars


---------------------------------------------------------------------------
(* Properties of requests in flight at the same time *)

\* the request of p found no document for its month and built a new one
FirstTimeCreation(p) ==
    pc[p] # "idle" /\ pending[p].old = NoDoc

\* C14: when two first-time checkIns for the same (user, month, year) run
\* concurrently and the later save hits the unique-key violation, the failure
\* is not propagated: the caller is answered with success.
C14_KeyViolationNotPropagated ==
    \A p \in Procs : pc[p] = "done" => outcome[p] = "success"

\* C15: in every interleaving the store never holds two MonthlyTracking
\* documents with the same (user, month, year), and once a first-time creation
\* has been saved or rejected exactly one document with its key is stored.
C15_OneDocumentPerKey ==
    /\ \A d1, d2 \in store :
          (d1.user = d2.user /\ d1.month = d2.month) => d1 = d2
    /\ \A p \in Procs :
          (pc[p] = "done" /\ FirstTimeCreation(p)) =>
              Cardinality({d \in store : /\ d.user = pending[p].doc.user
                                         /\ d.month = pending[p].doc.month}) = 1

\* two first-time creations of different documents for one key, one of them
\* rejected, and one document stored
C15_Witness ==
    /\ \A p \in Procs : pc[p] = "done" /\ FirstTimeCreation(p)
    /\ pending["p1"].doc # pending["p2"].doc
    /\ pending["p1"].doc.month = pending["p2"].doc.month
    /\ outcome["p1"] # outcome["p2"]
    /\ Cardinality(store) = 1


---------------------------------------------------------------------------
(* Properties of the stored entries *)

\* the last break of the entry has no end
LastBreakOpen(e) ==
    e.breaks # <<>> /\ e.breaks[Len(e.breaks)].end = None

\* C21: in every reachable stored state each entry's isPaused is true iff
\* its breaks list is non-empty and its last break has no end.
C21_PausedIffLastBreakOpen ==
    \A d \in store : \A k \in DOMAIN d.entries :
        d.entries[k].isPaused <=> LastBreakOpen(d.entries[k])


\* an entry checked out during a break and reopened: its first break is still
\* open, its last one is closed, and it is not paused
C21_Witness ==
    /\ last.op = "continueWork" /\ last.ok
    /\ \E d \in store : \E k \in DOMAIN d.entries :
          /\ Len(d.entries[k].breaks) = 2
          /\ d.entries[k].breaks[1].end = None
          /\ d.entries[k].breaks[2].end # None
          /\ ~d.entries[k].isPaused


---------------------------------------------------------------------------
(* Properties of the documents of different users *)

\* C22: no operation invoked for a user, whether it succeeds or is rejected,
\* creates or modifies a MonthlyTracking document of another user.
C22_OtherUsersUntouched ==
    [][ /\ \A d \in store : d.user # last'.user => d \in store'
        /\ \A d \in store' : d.user # last'.user => d \in store ]_vars

\* both users have a document and the second one has just changed theirs
C22_Witness ==
    /\ last.user = "u2" /\ last.op = "startPause" /\ last.ok
    /\ \E d1, d2 \in store :
          /\ d1.user = "u1" /\ d1.entries # <<>>
          /\ d2.user = "u2" /\ d2.entries[1].isPaused


---------------------------------------------------------------------------
(* Properties of the responses *)

\* the entries with a checkIn of user u dated on the UTC+3 day of instant t,
\* in the document of the UTC+3 month of t
CheckedInToday(st, u, t) ==
    LET es == MonthEntries(st, u, Utc3Month(t))
    IN  {es[k] : k \in {j \in DOMAIN es :
                          Utc3Day(es[j].date) = Utc3Day(t) /\ es[j].checkIn # None}}

\* C23: getTodayRealTimeStatus returns null when the user has no document for
\* the current UTC+3 month; entry = null, all hours 0, isWorking = false,
\* isPaused = false and timeToEightHours = 480 when there is no today-entry
\* with a checkIn; otherwise timeToEightHours = max(0, 480 - 60 * netHours)
\* minutes, within [0, 480], and isWorking = true iff the entry has no
\* checkOut after recalculation.
C23_StatusSnapshot ==
    [][ (last'.op = "status") =>
          LET u == last'.user
              data == last'.data
              hasDoc == \E d \in store : d.user = u /\ d.month = Utc3Month(now)
              today == CheckedInToday(store, u, now)
          IN  /\ ~hasDoc => data = StatusNull
              /\ (hasDoc /\ today = {}) =>
                    /\ data.kind = "empty"
                    /\ data.totalHours = 0 /\ data.breakHours = 0 /\ data.netHours = 0
                    /\ ~data.isWorking /\ ~data.isPaused
                    /\ data.timeToEightHours = 480
              /\ (hasDoc /\ today # {}) =>
                    /\ data.kind = "entry"
                    /\ data.timeToEightHours * MsPerMinute =
                          Max(0, 480 * MsPerMinute - data.netHours)
                    /\ 0 <= data.timeToEightHours /\ data.timeToEightHours <= 480
                    /\ \A e \in today :
                          data.isWorking <=>
                             /\ e.checkOut = None
                             /\ Utc3Day(now) = Utc3Day(e.checkIn)
                             /\ Utc3Hour(now) # 0 ]_vars

\* a status read four hours after the check-in of an open entry
C23_Witness ==
    /\ last.op = "status"
    /\ last.data.kind = "entry"
    /\ last.data.isWorking
    /\ last.data.timeToEightHours = 240


\* C26: a successful checkOut returns hasReachedEightHours = true exactly
\* when the worked time of the entry minus its break time at the checkout
\* instant is at least 8 hours, and then the stored entry has status
\* completed; with no breaks and exactly 8 hours between checkIn and
\* checkOut both hold.
C26_ReachedEightHours ==
    [][ (last'.op = "checkOut" /\ last'.ok) =>
          LET u == last'.user
              m == getMadaDateComponents(now)
              i == TodayEntryIndex(MonthEntries(store, u, m), now)
              old == MonthEntries(store, u, m)[i]
              new == MonthEntries(store', u, m)[i]
              worked == (now - old.checkIn) - SpansUntil(old.breaks, now)
          IN  /\ last'.data.hasReachedEightHours <=> worked >= EightHours
              /\ last'.data.hasReachedEightHours => new.status = "completed"
              /\ (old.breaks = <<>> /\ now - old.checkIn = EightHours) =>
                    /\ last'.data.hasReachedEightHours
                    /\ new.status = "completed" ]_vars


---------------------------------------------------------------------------
(* Properties of the life of documents and entries *)

\* the (user, month) keys of the stored documents
Keys(st) == {<<d.user, d.month>> : d \in st}

\* C25: a MonthlyTracking document is created only by checkIn; checkOut,
\* startPause, resumeWork and continueWork for a user without a document for
\* the current month are rejected and create nothing, a status read returns
\* null and creates nothing; no operation deletes a document or removes an
\* entry.
C25_CreatedOnlyByCheckIn ==
    [][ LET u == last'.user
            hasDoc == \E d \in store : d.user = u /\ d.month = Utc3Month(now)
        IN  /\ last'.op # "checkIn" => Keys(store') = Keys(store)
            /\ (last'.op \in {"checkOut", "startPause", "resumeWork", "continueWork"}
                  /\ ~hasDoc) => (~last'.ok /\ store' = store)
            /\ (last'.op = "status" /\ ~hasDoc) =>
                  (last'.data = StatusNull /\ store' = store)
            /\ Cardinality(store') >= Cardinality(store)
            /\ \A d \in store :
                  Len(MonthEntries(store', d.user, d.month)) >= Len(d.entries) ]_vars

\* a checkOut in a new month, rejected: the user has the document of the
\* month before and none for the current month
C25_Witness ==
    /\ last.op = "checkOut" /\ ~last.ok
    /\ store # {}
    /\ \A d \in store : d.user = last.user /\ d.month # Utc3Month(now)


\* the breaks of the entry that have no end
OpenBreaks(e) == {k \in DOMAIN e.breaks : e.breaks[k].end = None}

\* C27: in every reachable state an entry has at most one open break, and if
\* it has one it is the last element of breaks.
C27_AtMostOneOpenBreak ==
    \A d \in store : \A k \in DOMAIN d.entries :
        LET e == d.entries[k]
        IN  /\ Cardinality(OpenBreaks(e)) <= 1
            /\ OpenBreaks(e) \subseteq {Len(e.breaks)}

\* C28: after every successful manual checkOut at instant t, the stored
\* entry has no open break, every break ends at t or before, and isPaused is
\* false.
C28_CheckOutClosesBreaks ==
    (last.op = "checkOut" /\ last.ok) =>
        \A e \in EntriesOfDay(store, last.user, now) :
            e.checkOut = now =>
                /\ OpenBreaks(e) = {}
                /\ \A k \in DOMAIN e.breaks : e.breaks[k].end <= now
                /\ ~e.isPaused

\* C29: whatever the zone of the server, every stored entry has a checkIn,
\* and checkOut never appends an entry.
C29_EveryEntryHasCheckIn ==
    [][ /\ \A d \in store' : \A k \in DOMAIN d.entries : d.entries[k].checkIn # None
        /\ last'.op = "checkOut" =>
              \A d \in store' :
                  Len(d.entries) = Len(MonthEntries(store, d.user, d.month)) ]_vars


\* C30: if continueWork succeeds at instant t on an entry all of whose
\* breaks are closed, and the UTC+3 hour of t is not 0, then afterwards
\* totalHours - breakHours and netHours have the values they had at the
\* previous checkOut of the entry.
C30_ContinueWorkKeepsNetHours ==
    [][ (last'.op = "continueWork" /\ last'.ok) =>
          LET u == last'.user
              m == getMadaDateComponents(now)
              i == TodayEntryIndex(MonthEntries(store, u, m), now)
              old == MonthEntries(store, u, m)[i]
              new == MonthEntries(store', u, m)[i]
          IN  (OpenBreaks(old) = {} /\ Utc3Hour(now) # 0) =>
                  /\ new.totalHours - new.breakHours = old.totalHours - old.breakHours
                  /\ new.netHours = old.netHours ]_vars

===========================================================================
